---------------------------- MODULE Spec2Model ----------------------------
(***************************************************************************)
(* Room & session coordination of the real-time bingo server               *)
(* (src/server.ts): the GameManager (rooms, players, roomCodes), the       *)
(* WebSocket open/message/close handlers and the per-message handlers.     *)
(*                                                                         *)
(* The server is a single-threaded event loop and no handler awaits, so    *)
(* every handler runs to completion: one action per handler.               *)
(*                                                                         *)
(* Abstractions: Date.now() values (createdAt, timestamp) are left out;    *)
(* Math.random() is a nondeterministic choice among the listed outcomes.   *)
(***************************************************************************)
EXTENDS Integers, Sequences, FiniteSets, TLC

(* ------------------------------ bounds -------------------------------- *)
\* Spec and SpecAll explore join_room only into rooms shorter than this
MaxLen == 2
\* SpecOne explores join_room only into rooms shorter than this
MaxOne == 3

\* SpecDraw explores call_number only in rooms with fewer called numbers
MaxCalls == 5
\* SpecPlay explores claim_win only in rooms with fewer winners than this
MaxWins == 2

(* ------------------------- program constants -------------------------- *)
\* joinRoom: room.players.length >= 10
MaxPlayers == 10

\* the player ids generatePlayerId hands out, one per connection
Ids == {1, 2}

\* outcomes of generateRoomCode's random draw (6 characters of A-Z0-9)
Codes == {"AAAAAA", "BBBBBB"}
\* roomCode fields of inbound envelopes: a code (of an active room or of
\* none) or a missing field ("")
InputCodes == Codes \cup {""}
\* playerName fields of inbound envelopes ("" = missing)
InputNames == {"ann", ""}
\* gameType fields of inbound envelopes ("" = missing)
InputTypes == {"75ball", ""}
\* message fields of chat envelopes ("" = missing)
InputTexts == {"hi", ""}
\* pattern fields of inbound envelopes ("" = missing)
InputPatterns == {"full-house", ""}
\* outcomes of the draw of callNumber that Spec explores
Draws == {1}
\* outcomes of generateBoard that Spec explores (indices of sample boards)
BoardSamples == {0}

\* gameType fields SpecDraw explores: the four variants generateBoard and
\* callNumber name, and one they do not
DrawTypes == {"75ball", "90ball", "30ball", "pattern", "coverall"}
\* outcomes of the draw of callNumber that SpecDraw explores, those of them
\* that lie in the room's number space: the ends of the four number spaces
\* and their neighbours
DrawSamples == {0, 1, 2, 30, 31, 75, 90, 91}
\* the game type, draws and patterns SpecPlay explores: with the board
\* 1..9 two called numbers make a one-line claim valid
PlayTypes == {"30ball"}
PlayDraws == {1, 2}
PlayPatterns == {"one-line", "full-house"}

VARIABLES
  rooms,      \* GameManager.rooms: code -> Room (a function on the active codes)
  roomOrder,  \* insertion order of the keys of GameManager.rooms (Map order)
  roomCodes,  \* GameManager.roomCodes
  players,    \* keys of GameManager.players (the connection registry)
  player,     \* the Player objects, by id (rooms hold them by reference)
  conn,       \* each socket: "new", "open", "broken" (its sends throw) or
              \* "closed"
  wss,        \* the set wss of sockets, in insertion order
  sent,       \* the envelopes the last handler sent, in order
  last,       \* the last handler that ran: [op, pid, code, ok, host]
  pc          \* where the event loop is: "idle" between handlers, or
              \* "callNumber" inside the draw loop of callNumber

vars == <<rooms, roomOrder, roomCodes, players, player, conn, wss, sent, last, pc>>

(* ------------------------------ helpers ------------------------------- *)
NoBoard == <<>>

Range(s) == {s[i] : i \in DOMAIN s}

\* Array.prototype.findIndex(p => p.id === playerId); 0 stands for -1
findIndex(s, playerId) ==
  IF playerId \in Range(s)
  THEN CHOOSE i \in DOMAIN s : s[i] = playerId /\ \A j \in 1..(i-1) : s[j] # playerId
  ELSE 0

\* Array.prototype.splice(index, 1)
splice(s, index) ==
  [i \in 1..(Len(s) - 1) |-> IF i < index THEN s[i] ELSE s[i + 1]]

RECURSIVE Concat(_)
Concat(ss) == IF ss = <<>> THEN <<>> ELSE Head(ss) \o Concat(Tail(ss))

\* socket.isClosed, with the sockets in state c
isClosed(c, id) == c[id] \notin {"open", "broken"}

\* socket.send(...) throws: the transport has failed and the socket is not
\* closed yet
sendThrows(c, id) == c[id] = "broken"

getDefaultPattern(gameType) ==
  CASE gameType = "75ball" -> "full-house"
    [] gameType = "90ball" -> "one-line"
    [] gameType = "30ball" -> "full-house"
    [] gameType = "pattern" -> "x-pattern"
    [] OTHER -> "full-house"

\* getRoomState(room), given the Player objects pl
getRoomState(room, pl) ==
  [code |-> room.code, gameType |-> room.gameType, status |-> room.status,
   hostId |-> room.hostId,
   players |-> [i \in DOMAIN room.players |->
                  [id |-> room.players[i], name |-> pl[room.players[i]].name,
                   isHost |-> pl[room.players[i]].isHost]],
   calledNumbers |-> room.calledNumbers, currentNumber |-> room.currentNumber,
   winPattern |-> room.winPattern, winners |-> room.winners]

\* getActiveRooms(), given the room map rs in key order ord
getActiveRooms(rs, ord, pl) ==
  [i \in DOMAIN ord |->
     LET room == rs[ord[i]] IN
     [code |-> room.code, gameType |-> room.gameType,
      hostName |-> IF room.hostId \in Range(room.players) /\ pl[room.hostId].name # ""
                   THEN pl[room.hostId].name ELSE "Unknown",
      playerCount |-> Len(room.players), status |-> room.status]]

\* broadcastToRoom(room, message): one send per entry of room.players whose
\* socket is not closed, in order; a send that throws is caught and the
\* loop goes on
broadcastToRoom(room, message, c) ==
  Concat([i \in DOMAIN room.players |->
            IF isClosed(c, room.players[i]) \/ sendThrows(c, room.players[i])
            THEN <<>>
            ELSE <<[to |-> room.players[i], msg |-> message]>>])

\* broadcastRoomListUpdate(): one send per socket of wss that is not closed,
\* in order; nothing catches a send that throws, which ends the loop (and
\* the handler, whose last statement this call is)
broadcastRoomListUpdate(rs, ord, pl, c, w) ==
  Concat([i \in DOMAIN w |->
            IF isClosed(c, w[i]) \/ \E j \in 1..i : sendThrows(c, w[j])
            THEN <<>>
            ELSE <<[to |-> w[i],
                    msg |-> [type |-> "rooms_list",
                             rooms |-> getActiveRooms(rs, ord, pl)]]>>])

\* player.socket.send of an error envelope
errorTo_broadcast(id, text) ==
  [i \in DOMAIN wss |-> [to |-> wss[i], msg |-> [type |-> "error", message |-> text]]]

errorTo(id, text) == <<[to |-> id, msg |-> [type |-> "error", message |-> text]]>>

(* ------------------------------- boards ------------------------------ *)
\* A board is a sequence of rows; the flat 30-ball array is one row; 0 is a
\* free or empty cell. Each generator is given the index k of the sample
\* outcome it returns.
\* generate75BallBoard(): column c holds 5 sorted numbers of its range,
\* transposed to rows, centre 0
Board75(k) ==
  [row \in 1..5 |->
     [col \in 1..5 |-> IF row = 3 /\ col = 3 THEN 0 ELSE 15 * (col - 1) + row + k]]
generate75BallBoard(k) == Board75(k)

\* generate90BallBoard(): 3 rows of 9, 1 to 3 numbers per column
generate90BallBoard(k) ==
  [row \in 1..3 |-> [col \in 1..9 |-> IF row = 1 THEN 10 * (col - 1) + 1 + k ELSE 0]]

\* generate30BallBoard(): 9 sorted distinct numbers of 1..30
generate30BallBoard(k) == <<[i \in 1..9 |-> i + k]>>

generatePatternBoard(k) == generate75BallBoard(k)

generateBoard(gameType, k) ==
  CASE gameType = "75ball" -> generate75BallBoard(k)
    [] gameType = "90ball" -> generate90BallBoard(k)
    [] gameType = "30ball" -> generate30BallBoard(k)
    [] gameType = "pattern" -> generatePatternBoard(k)
    [] OTHER -> generate75BallBoard(k)

\* flattenBoard(board, gameType): the cells > 0
flattenBoard(board) == {n \in Range(Concat(board)) : n > 0}

getTotalCells(gameType) ==
  CASE gameType \in {"75ball", "pattern"} -> 24
    [] gameType = "90ball" -> 15
    [] gameType = "30ball" -> 9
    [] OTHER -> 24

\* calculateMarkedCount(player, room)
calculateMarkedCount(board, room) ==
  IF board = NoBoard THEN 0
  ELSE Len(SelectSeq(room.calledNumbers, LAMBDA num : num \in flattenBoard(board)))

\* verifyWin(player, room, claimedPattern): markedCount >= totalCells * f,
\* in tenths
verifyWin(board, room, claimedPattern) ==
  LET markedCount == calculateMarkedCount(board, room)
      totalCells == getTotalCells(room.gameType)
  IN CASE claimedPattern = "full-house" -> markedCount * 10 >= totalCells * 8
       [] claimedPattern = "one-line" -> markedCount * 10 >= totalCells * 2
       [] claimedPattern = "x-pattern" -> markedCount * 10 >= totalCells * 3
       [] OTHER -> markedCount * 10 >= totalCells * 5

\* calculatePrize(room): floor(playerCount * 25 * 0.97)
calculatePrize(room) == (Len(room.players) * 25 * 97) \div 100

\* the number space callNumber draws from: Math.floor(Math.random() * n) + 1
numberSpace_zeroBased(gameType) ==
  CASE gameType \in {"75ball", "pattern"} -> 0..74
    [] gameType = "90ball" -> 0..89
    [] gameType = "30ball" -> 0..29
    [] OTHER -> 0..49

numberSpace(gameType) ==
  CASE gameType \in {"75ball", "pattern"} -> 1..75
    [] gameType = "90ball" -> 1..90
    [] gameType = "30ball" -> 1..30
    [] OTHER -> 1..50

(* ------------------------------- Init --------------------------------- *)
Init ==
  /\ rooms = <<>>
  /\ roomOrder = <<>>
  /\ roomCodes = {}
  /\ players = {}
  /\ player = [id \in Ids |-> [name |-> "", isHost |-> FALSE, board |-> NoBoard]]
  /\ conn = [id \in Ids |-> "new"]
  /\ wss = <<>>
  /\ sent = <<>>
  /\ last = [op |-> "init", pid |-> 0, code |-> "", ok |-> FALSE, host |-> 0]
  /\ pc = "idle"

\* what last records of a handler: in full when it succeeded (host is the
\* hostId of the room before it ran), by name alone when it did not
Event(op, pid, code, ok) ==
  IF ok
  THEN [op |-> op, pid |-> pid, code |-> code, ok |-> TRUE,
        host |-> IF code \in DOMAIN rooms THEN rooms[code].hostId ELSE 0]
  ELSE [op |-> op, pid |-> 0, code |-> "", ok |-> FALSE, host |-> 0]

(* ----------------------- GameManager operations ----------------------- *)
\* Each returns the manager's state after the call, the envelopes it sent
\* and its return value.
GM(rs, ord, rc, pl, out, ret) ==
  [rooms |-> rs, roomOrder |-> ord, roomCodes |-> rc, player |-> pl,
   out |-> out, ret |-> ret]

\* generateRoomCode(): the codes the retry loop can end on
generateRoomCode_any == Codes

generateRoomCode == Codes \ roomCodes

\* createRoom(host, gameType), with code the value generateRoomCode returned;
\* pl holds the Player objects at the call
createRoom(code, host, gameType, pl) ==
  LET room == [code |-> code, hostId |-> host, gameType |-> gameType,
               status |-> "waiting", players |-> <<host>>,
               calledNumbers |-> <<>>, currentNumber |-> 0,
               winPattern |-> getDefaultPattern(gameType), winners |-> <<>>]
  IN GM([c \in DOMAIN rooms \cup {code} |-> IF c = code THEN room ELSE rooms[c]],
        Append(roomOrder, code),
        roomCodes \cup {code},
        [pl EXCEPT ![host].isHost = TRUE],
        <<>>, code)

\* joinRoom: room.players.length >= 10
joinFull_offByOne(room) == Len(room.players) > MaxPlayers

joinFull(room) == Len(room.players) >= MaxPlayers

\* joinRoom: room.status !== 'waiting'
joinOpen_always(room) == TRUE

joinOpen(room) == room.status = "waiting"

\* joinRoom: room.players.push(player)
pushPlayer_front(ps, id) == <<id>> \o ps

pushPlayer(ps, id) == Append(ps, id)

\* joinRoom(code, player)
joinRoom(code, id, pl) ==
  IF \/ code \notin DOMAIN rooms
     \/ ~joinOpen(rooms[code])
     \/ joinFull(rooms[code])
  THEN GM(rooms, roomOrder, roomCodes, pl, <<>>, FALSE)
  ELSE LET room == [rooms[code] EXCEPT !.players = pushPlayer(@, id)] IN
       GM([rooms EXCEPT ![code] = room], roomOrder, roomCodes, pl,
          broadcastToRoom(room,
            [type |-> "player_joined", player |-> [id |-> id, name |-> pl[id].name]],
            conn),
          TRUE)

\* leaveRoom, "If host leaves, assign new host": the room's hostId after
\* playerId was spliced out of room0.players, leaving remaining
hostAfterLeave_none(room0, remaining, playerId) == room0.hostId

hostAfterLeave_last(room0, remaining, playerId) ==
  IF playerId = room0.hostId /\ Len(remaining) > 0
  THEN remaining[Len(remaining)]
  ELSE room0.hostId

hostAfterLeave(room0, remaining, playerId) ==
  IF playerId = room0.hostId /\ Len(remaining) > 0
  THEN remaining[1]
  ELSE room0.hostId

\* leaveRoom, "If room is empty, delete it"
roomEmpty_never(remaining) == FALSE

roomEmpty(remaining) == Len(remaining) = 0

\* leaveRoom(code, playerId), with sockets in state c
leaveRoom(code, playerId, c) ==
  IF code \notin DOMAIN rooms
  THEN GM(rooms, roomOrder, roomCodes, player, <<>>, FALSE)
  ELSE
  LET room0 == rooms[code]
      playerIndex == findIndex(room0.players, playerId)
  IN
  IF playerIndex = 0
  THEN GM(rooms, roomOrder, roomCodes, player, <<>>, FALSE)
  ELSE
  LET remaining == splice(room0.players, playerIndex)
      room == [room0 EXCEPT !.players = remaining,
                            !.hostId = hostAfterLeave(room0, remaining, playerId)]
      pl == IF playerId = room0.hostId /\ Len(remaining) > 0
            THEN [player EXCEPT ![remaining[1]].isHost = TRUE]
            ELSE player
  IN
  IF roomEmpty(remaining)
  THEN GM([c2 \in DOMAIN rooms \ {code} |-> rooms[c2]],
          SelectSeq(roomOrder, LAMBDA c2 : c2 # code),
          roomCodes \ {code}, pl, <<>>, TRUE)
  ELSE GM([rooms EXCEPT ![code] = room], roomOrder, roomCodes, pl,
          broadcastToRoom(room,
            [type |-> "player_left", playerId |-> playerId,
             playerName |-> player[playerId].name], c),
          TRUE)

\* startGame, room.players.forEach(player => player.board = generateBoard()):
\* the Player objects afterwards, boards[id] being the board generated for id
boardsAfterStart_hostOnly(room, boards) ==
  [id \in Ids |-> IF id = room.hostId
                  THEN [player[id] EXCEPT !.board = boards[id]]
                  ELSE player[id]]

boardsAfterStart(room, boards) ==
  [id \in Ids |-> IF id \in Range(room.players)
                  THEN [player[id] EXCEPT !.board = boards[id]]
                  ELSE player[id]]

\* startGame: the room can be started (room.status === 'waiting')
startAllowed_always(room) == TRUE

startAllowed(room) == room.status = "waiting"

\* startGame(code), with boards the outcome of the generateBoard calls
startGame(code, boards) ==
  IF code \notin DOMAIN rooms \/ ~startAllowed(rooms[code])
  THEN GM(rooms, roomOrder, roomCodes, player, <<>>, FALSE)
  ELSE LET room == [rooms[code] EXCEPT !.status = "playing",
                                       !.calledNumbers = <<>>,
                                       !.winners = <<>>]
           pl == boardsAfterStart(room, boards)
       IN GM([rooms EXCEPT ![code] = room], roomOrder, roomCodes, pl,
             broadcastToRoom(room,
               [type |-> "game_started", gameState |-> getRoomState(room, pl)], conn),
             TRUE)

\* the guard of callNumber
callAllowed_anyone(code, callerId) ==
  code \in DOMAIN rooms /\ rooms[code].status = "playing"

callAllowed(code, callerId) ==
  code \in DOMAIN rooms /\ rooms[code].status = "playing" /\ rooms[code].hostId = callerId

\* callNumber, the do-while loop: the values it can end on, those of the
\* number space that calledNumbers does not include; with none left the
\* loop does not end
drawOutcomes_any(room) == numberSpace(room.gameType)

drawOutcomes(room) == numberSpace(room.gameType) \ Range(room.calledNumbers)

\* callNumber: room.calledNumbers.push(number)
pushNumber_front(calledNumbers, number) == <<number>> \o calledNumbers

pushNumber(calledNumbers, number) == Append(calledNumbers, number)

\* callNumber: room.currentNumber = number
currentAfterCall_stale(room, number) == room.currentNumber

currentAfterCall(room, number) == number

\* callNumber(code, callerId), with number the value the draw loop ended on
callNumber(code, callerId, number) ==
  IF ~callAllowed(code, callerId)
  THEN GM(rooms, roomOrder, roomCodes, player, <<>>, 0)
  ELSE LET room == [rooms[code] EXCEPT !.calledNumbers = pushNumber(@, number),
                                       !.currentNumber = currentAfterCall(rooms[code], number)]
       IN GM([rooms EXCEPT ![code] = room], roomOrder, roomCodes, player,
             broadcastToRoom(room,
               [type |-> "number_called", number |-> number, callerId |-> callerId,
                callerName |-> IF player[callerId].name # "" THEN player[callerId].name
                               ELSE "Host",
                calledNumbers |-> room.calledNumbers], conn),
             number)

\* claimWin: room.players.find(p => p.id === playerId) finds a player
claimMember_anyone(room, playerId) == TRUE

claimMember(room, playerId) == playerId \in Range(room.players)

\* claimWin: isValidWin, the verdict of verifyWin on the claimant's board
claimVerdict_firstOnly(room, playerId, pattern) ==
  verifyWin(player[playerId].board, room, pattern) /\ room.winners = <<>>

claimVerdict(room, playerId, pattern) ==
  verifyWin(player[playerId].board, room, pattern)

\* claimWin: room.winners.push(record)
pushWinner_front(winners, record) == <<record>> \o winners

pushWinner(winners, record) == Append(winners, record)

\* claimWin(code, playerId, pattern)
claimWin(code, playerId, pattern) ==
  IF \/ code \notin DOMAIN rooms
     \/ rooms[code].status # "playing"
     \/ ~claimMember(rooms[code], playerId)
     \/ ~claimVerdict(rooms[code], playerId, pattern)
  THEN GM(rooms, roomOrder, roomCodes, player, <<>>, FALSE)
  ELSE LET room == [rooms[code] EXCEPT !.winners =
                      pushWinner(@, [playerId |-> playerId,
                                     playerName |-> player[playerId].name,
                                     pattern |-> pattern])]
       IN GM([rooms EXCEPT ![code] = room], roomOrder, roomCodes, player,
             broadcastToRoom(room,
               [type |-> "player_win", playerId |-> playerId,
                playerName |-> player[playerId].name, pattern |-> pattern,
                prize |-> calculatePrize(room)], conn),
             TRUE)

\* sendChatMessage: room.players.find(p => p.id === playerId) finds a player
chatMember_anyone(room, playerId) == TRUE

chatMember(room, playerId) == playerId \in Range(room.players)

\* sendChatMessage(code, playerId, message)
sendChatMessage(code, playerId, message) ==
  IF code \notin DOMAIN rooms \/ ~chatMember(rooms[code], playerId)
  THEN GM(rooms, roomOrder, roomCodes, player, <<>>, FALSE)
  ELSE GM(rooms, roomOrder, roomCodes, player,
          broadcastToRoom(rooms[code],
            [type |-> "chat_message", playerId |-> playerId,
             playerName |-> player[playerId].name, message |-> message], conn),
          TRUE)

(* ------------------------------ handlers ------------------------------ *)
Apply(g, extra, ev) ==
  /\ rooms' = g.rooms
  /\ roomOrder' = g.roomOrder
  /\ roomCodes' = g.roomCodes
  /\ player' = g.player
  /\ sent' = g.out \o extra
  /\ last' = ev

\* the event loop takes the next event only when no handler is running
Idle == pc = "idle"

\* client.on("open") (with the wss.add of the upgrade): a new player id is
\* registered for the socket; player_connected and rooms_list go to it
Open(id) ==
  /\ Idle
  /\ conn[id] = "new"
  /\ conn' = [conn EXCEPT ![id] = "open"]
  /\ wss' = Append(wss, id)
  /\ players' = players \cup {id}
  /\ player' = [player EXCEPT ![id] = [name |-> "", isHost |-> FALSE, board |-> NoBoard]]
  /\ sent' = <<[to |-> id, msg |-> [type |-> "player_connected", playerId |-> id]],
               [to |-> id, msg |-> [type |-> "rooms_list",
                                    rooms |-> getActiveRooms(rooms, roomOrder, player)]]>>
  /\ last' = Event("open", id, "", TRUE)
  /\ UNCHANGED <<rooms, roomOrder, roomCodes, pc>>

\* client.on("error"): the transport of an open socket has failed; the
\* handler only logs. From here on a send on the socket throws, and the
\* socket delivers no further message, only its close
SocketError(id) ==
  /\ Idle
  /\ conn[id] = "open"
  /\ conn' = [conn EXCEPT ![id] = "broken"]
  /\ sent' = <<>>
  /\ last' = Event("error", id, "", TRUE)
  /\ UNCHANGED <<rooms, roomOrder, roomCodes, players, player, wss, pc>>

\* handleWebSocketMessage resolves the sender from its socket
Sender(id) == Idle /\ conn[id] = "open" /\ id \in players

\* handleCreateRoom(player, {playerName, gameType}); code is the outcome of
\* generateRoomCode's random draw
handleCreateRoom(id, playerName, gameType, code) ==
  /\ Sender(id)
  /\ UNCHANGED <<players, conn, wss, pc>>
  /\ IF playerName = "" \/ gameType = ""
     THEN /\ sent' = errorTo(id, "Missing player name or game type")
          /\ last' = Event("create_room", id, "", FALSE)
          /\ UNCHANGED <<rooms, roomOrder, roomCodes, player>>
     ELSE /\ code \in generateRoomCode
          /\ LET pl == [player EXCEPT ![id].name = playerName]
                 g == createRoom(code, id, gameType, pl)
             IN Apply(g,
                  <<[to |-> id,
                     msg |-> [type |-> "room_created", roomCode |-> code,
                              gameState |-> getRoomState(g.rooms[code], g.player),
                              board |-> g.player[id].board]]>>
                  \o broadcastRoomListUpdate(g.rooms, g.roomOrder, g.player, conn, wss),
                  Event("create_room", id, code, TRUE))

\* handleJoinRoom(player, {roomCode, playerName})
handleJoinRoom(id, roomCode, playerName) ==
  /\ Sender(id)
  /\ UNCHANGED <<players, conn, wss, pc>>
  /\ IF roomCode = "" \/ playerName = ""
     THEN /\ sent' = errorTo(id, "Missing room code or player name")
          /\ last' = Event("join_room", id, roomCode, FALSE)
          /\ UNCHANGED <<rooms, roomOrder, roomCodes, player>>
     ELSE LET pl == [player EXCEPT ![id].name = playerName]
              g == joinRoom(roomCode, id, pl)
          IN IF ~g.ret
             THEN Apply(g, errorTo(id, "Room not found or full"),
                        Event("join_room", id, roomCode, FALSE))
             ELSE Apply(g,
                    <<[to |-> id,
                       msg |-> [type |-> "room_joined", roomCode |-> roomCode,
                                gameState |-> getRoomState(g.rooms[roomCode], g.player),
                                board |-> g.player[id].board]]>>
                    \o broadcastRoomListUpdate(g.rooms, g.roomOrder, g.player, conn, wss),
                    Event("join_room", id, roomCode, TRUE))

\* handleLeaveRoom(player, {roomCode})
handleLeaveRoom(id, roomCode) ==
  /\ Sender(id)
  /\ UNCHANGED <<players, conn, wss, pc>>
  /\ IF roomCode = ""
     THEN /\ sent' = <<>>
          /\ last' = Event("leave_room", id, roomCode, FALSE)
          /\ UNCHANGED <<rooms, roomOrder, roomCodes, player>>
     ELSE LET g == leaveRoom(roomCode, id, conn) IN
          Apply(g, broadcastRoomListUpdate(g.rooms, g.roomOrder, g.player, conn, wss),
                Event("leave_room", id, roomCode, g.ret))

\* the rooms the close handler's loop calls leaveRoom on: the first room, in
\* the order of getActiveRooms(), that has the player among its players
closeRooms(id) ==
  LET hits == SelectSeq(roomOrder, LAMBDA c : id \in Range(rooms[c].players))
  IN IF hits = <<>> THEN <<>> ELSE <<hits[1]>>

\* client.on("close")
Close(id) ==
  /\ Idle
  /\ conn[id] \in {"open", "broken"}
  /\ UNCHANGED pc
  /\ conn' = [conn EXCEPT ![id] = "closed"]
  /\ wss' = SelectSeq(wss, LAMBDA w : w # id)
  /\ players' = players \ {id}
  /\ LET found == closeRooms(id) IN
     IF found = <<>>
     THEN /\ sent' = <<>>
          /\ last' = Event("close", id, "", FALSE)
          /\ UNCHANGED <<rooms, roomOrder, roomCodes, player>>
     ELSE Apply(leaveRoom(found[1], id, conn'), <<>>,
                Event("close", id, found[1], TRUE))

\* handleStartGame(player, {roomCode})
handleStartGame(id, roomCode, boards) ==
  /\ Sender(id)
  /\ UNCHANGED <<players, conn, wss, pc>>
  /\ IF roomCode = ""
     THEN /\ sent' = <<>>
          /\ last' = Event("start_game", id, roomCode, FALSE)
          /\ UNCHANGED <<rooms, roomOrder, roomCodes, player>>
     ELSE LET g == startGame(roomCode, boards) IN
          Apply(g, IF g.ret THEN <<>> ELSE errorTo(id, "Failed to start game"),
                Event("start_game", id, roomCode, g.ret))

\* handleCallNumber(player, {roomCode}); when callNumber passes its guard
\* with every value of the number space called, its loop runs for ever and
\* the handler does not return
handleCallNumber(id, roomCode, number) ==
  /\ Sender(id)
  /\ UNCHANGED <<players, conn, wss>>
  /\ IF roomCode = ""
     THEN /\ sent' = <<>>
          /\ last' = Event("call_number", id, roomCode, FALSE)
          /\ UNCHANGED <<rooms, roomOrder, roomCodes, player, pc>>
     ELSE IF callAllowed(roomCode, id) /\ drawOutcomes(rooms[roomCode]) = {}
     THEN /\ pc' = "callNumber"
          /\ sent' = <<>>
          /\ last' = Event("call_number", id, roomCode, FALSE)
          /\ UNCHANGED <<rooms, roomOrder, roomCodes, player>>
     ELSE /\ callAllowed(roomCode, id) => number \in drawOutcomes(rooms[roomCode])
          /\ UNCHANGED pc
          /\ LET g == callNumber(roomCode, id, number) IN
             Apply(g, IF g.ret # 0 THEN <<>>
                      ELSE errorTo(id, "Not authorized to call numbers"),
                   Event("call_number", id, roomCode, g.ret # 0))

\* handleClaimWin(player, {roomCode, pattern}); the envelope's playerId is
\* not read
handleClaimWin(id, roomCode, pattern) ==
  /\ Sender(id)
  /\ UNCHANGED <<players, conn, wss, pc>>
  /\ IF roomCode = "" \/ pattern = ""
     THEN /\ sent' = <<>>
          /\ last' = Event("claim_win", id, roomCode, FALSE)
          /\ UNCHANGED <<rooms, roomOrder, roomCodes, player>>
     ELSE LET g == claimWin(roomCode, id, pattern) IN
          Apply(g, IF g.ret THEN <<>> ELSE errorTo(id, "Invalid win claim"),
                Event("claim_win", id, roomCode, g.ret))

\* handleChatMessage(player, {roomCode, message})
handleChatMessage(id, roomCode, message) ==
  /\ Sender(id)
  /\ UNCHANGED <<players, conn, wss, pc>>
  /\ IF roomCode = "" \/ message = ""
     THEN /\ sent' = <<>>
          /\ last' = Event("chat_message", id, roomCode, FALSE)
          /\ UNCHANGED <<rooms, roomOrder, roomCodes, player>>
     ELSE LET g == sendChatMessage(roomCode, id, message) IN
          Apply(g, <<>>, Event("chat_message", id, roomCode, g.ret))

\* case 'get_rooms'
handleGetRooms(id) ==
  /\ Sender(id)
  /\ sent' = <<[to |-> id, msg |-> [type |-> "rooms_list",
                                    rooms |-> getActiveRooms(rooms, roomOrder, player)]]>>
  /\ last' = Event("get_rooms", id, "", TRUE)
  /\ UNCHANGED <<rooms, roomOrder, roomCodes, players, player, conn, wss, pc>>

\* an envelope whose type matches no case of the switch (which has no
\* default), or a message on which JSON.parse throws, caught and logged in
\* client.on("message")
handleUnknown_drop(id) ==
  /\ Sender(id)
  /\ conn' = [conn EXCEPT ![id] = "closed"]
  /\ players' = players \ {id}
  /\ sent' = <<>>
  /\ last' = Event("unknown", id, "", FALSE)
  /\ UNCHANGED <<rooms, roomOrder, roomCodes, player, wss, pc>>

handleUnknown(id) ==
  /\ Sender(id)
  /\ sent' = <<>>
  /\ last' = Event("unknown", id, "", FALSE)
  /\ UNCHANGED <<rooms, roomOrder, roomCodes, players, player, conn, wss, pc>>

\* the boards the generateBoard calls of one startGame can return, each
\* among the sample outcomes ks
boardChoices(roomCode, ks) ==
  IF roomCode \in DOMAIN rooms
  THEN [Ids -> {generateBoard(rooms[roomCode].gameType, k) : k \in ks}]
  ELSE {[id \in Ids |-> NoBoard]}

\* the handlers of connection and room lifecycle
Next ==
  \/ \E id \in Ids : Open(id)
  \/ \E id \in Ids, n \in InputNames, t \in InputTypes, c \in Codes :
       handleCreateRoom(id, n, t, c)
  \/ \E id \in Ids, c \in InputCodes, n \in InputNames :
       (c \in DOMAIN rooms => Len(rooms[c].players) < MaxLen) /\ handleJoinRoom(id, c, n)
  \/ \E id \in Ids, c \in InputCodes : handleLeaveRoom(id, c)
  \/ \E id \in Ids, c \in InputCodes :
       \E b \in boardChoices(c, BoardSamples) : handleStartGame(id, c, b)
  \/ \E id \in Ids : Close(id)

Spec == Init /\ [][Next]_vars

\* every handler
NextAll ==
  \/ Next
  \/ \E id \in Ids, c \in InputCodes, n \in Draws : handleCallNumber(id, c, n)
  \/ \E id \in Ids, c \in InputCodes, p \in InputPatterns : handleClaimWin(id, c, p)
  \/ \E id \in Ids, c \in InputCodes, m \in InputTexts : handleChatMessage(id, c, m)
  \/ \E id \in Ids : handleGetRooms(id)
  \/ \E id \in Ids : handleUnknown(id)

SpecAll == Init /\ [][NextAll]_vars

\* create, join and leave on one room code, up to the capacity of joinRoom
CapCode == "AAAAAA"
NextCap ==
  \/ \E id \in Ids : Open(id)
  \/ \E id \in Ids, n \in InputNames, t \in InputTypes : handleCreateRoom(id, n, t, CapCode)
  \/ \E id \in Ids, n \in InputNames : handleJoinRoom(id, CapCode, n)
  \/ \E id \in Ids : handleLeaveRoom(id, CapCode)

SpecCap == Init /\ [][NextCap]_vars

\* the lifecycle of one room
NextOne ==
  \/ \E id \in Ids : Open(id)
  \/ \E id \in Ids, n \in InputNames, t \in InputTypes : handleCreateRoom(id, n, t, CapCode)
  \/ \E id \in Ids, n \in InputNames :
       (CapCode \in DOMAIN rooms => Len(rooms[CapCode].players) < MaxOne)
       /\ handleJoinRoom(id, CapCode, n)
  \/ \E id \in Ids : handleLeaveRoom(id, CapCode)
  \/ \E id \in Ids :
       \E b \in boardChoices(CapCode, BoardSamples) : handleStartGame(id, CapCode, b)
  \/ \E id \in Ids : Close(id)

SpecOne == Init /\ [][NextOne]_vars

\* one room from creation to its draws, over every game type
NextDraw ==
  \/ \E id \in Ids : Open(id)
  \/ \E id \in Ids, t \in DrawTypes : handleCreateRoom(id, "ann", t, CapCode)
  \/ \E id \in Ids :
       \E b \in boardChoices(CapCode, BoardSamples) : handleStartGame(id, CapCode, b)
  \/ \E id \in Ids, n \in DrawSamples :
       (CapCode \in DOMAIN rooms => Len(rooms[CapCode].calledNumbers) < MaxCalls)
       /\ handleCallNumber(id, CapCode, n)

SpecDraw == Init /\ [][NextDraw]_vars

\* every handler that takes a room code on one room, with games that can
\* be won
NextPlay ==
  \/ \E id \in Ids : Open(id)
  \/ \E id \in Ids, n \in InputNames, t \in PlayTypes : handleCreateRoom(id, n, t, CapCode)
  \/ \E id \in Ids, n \in InputNames :
       (CapCode \in DOMAIN rooms => Len(rooms[CapCode].players) < MaxLen)
       /\ handleJoinRoom(id, CapCode, n)
  \/ \E id \in Ids : handleLeaveRoom(id, CapCode)
  \/ \E id \in Ids :
       \E b \in boardChoices(CapCode, BoardSamples) : handleStartGame(id, CapCode, b)
  \/ \E id \in Ids, n \in PlayDraws : handleCallNumber(id, CapCode, n)
  \/ \E id \in Ids, p \in PlayPatterns :
       (CapCode \in DOMAIN rooms => Len(rooms[CapCode].winners) < MaxWins)
       /\ handleClaimWin(id, CapCode, p)
  \/ \E id \in Ids, m \in InputTexts : handleChatMessage(id, CapCode, m)
  \/ \E id \in Ids : Close(id)

SpecPlay == Init /\ [][NextPlay]_vars

\* the least value the draw loop of callNumber can end on
leastDraw(room) ==
  CHOOSE n \in drawOutcomes(room) : \A k \in drawOutcomes(room) : n <= k

\* one 30-ball room whose host calls numbers until none is left, the draws
\* taken in ascending order
NextExhaust ==
  \/ \E id \in Ids : Open(id)
  \/ \E id \in Ids : handleCreateRoom(id, "ann", "30ball", CapCode)
  \/ \E id \in Ids :
       \E b \in boardChoices(CapCode, BoardSamples) : handleStartGame(id, CapCode, b)
  \/ \E id \in Ids, n \in numberSpace("30ball") :
       ((CapCode \in DOMAIN rooms /\ drawOutcomes(rooms[CapCode]) # {})
          => n = leastDraw(rooms[CapCode]))
       /\ handleCallNumber(id, CapCode, n)

SpecExhaust == Init /\ [][NextExhaust]_vars

\* one room filled up to the capacity of joinRoom and started
NextFull ==
  \/ \E id \in Ids : Open(id)
  \/ \E id \in Ids, n \in InputNames, t \in InputTypes : handleCreateRoom(id, n, t, CapCode)
  \/ \E id \in Ids, n \in InputNames : handleJoinRoom(id, CapCode, n)
  \/ \E id \in Ids :
       \E b \in boardChoices(CapCode, BoardSamples) : handleStartGame(id, CapCode, b)

SpecFull == Init /\ [][NextFull]_vars

\* one 75ball room whose host calls the numbers of the board in ascending
\* order and claims full-house along the way
NextCover ==
  \/ \E id \in Ids : Open(id)
  \/ \E id \in Ids : handleCreateRoom(id, "ann", "75ball", CapCode)
  \/ \E id \in Ids :
       \E b \in boardChoices(CapCode, BoardSamples) : handleStartGame(id, CapCode, b)
  \/ \E id \in Ids, n \in flattenBoard(generate75BallBoard(0)) :
       /\ CapCode \in DOMAIN rooms
       /\ n \in drawOutcomes(rooms[CapCode])
       /\ \A k \in flattenBoard(generate75BallBoard(0)) \cap drawOutcomes(rooms[CapCode]) :
            n <= k
       /\ handleCallNumber(id, CapCode, n)
  \/ \E id \in Ids :
       (CapCode \in DOMAIN rooms => Len(rooms[CapCode].winners) < MaxWins)
       /\ handleClaimWin(id, CapCode, "full-house")

SpecCover == Init /\ [][NextCover]_vars

\* one room, its chat and the messages the router answers itself, over
\* sockets whose transport can fail
NextWire ==
  \/ \E id \in Ids : Open(id)
  \/ \E id \in Ids : SocketError(id)
  \/ \E id \in Ids, n \in InputNames, t \in InputTypes : handleCreateRoom(id, n, t, CapCode)
  \/ \E id \in Ids, n \in InputNames :
       (CapCode \in DOMAIN rooms => Len(rooms[CapCode].players) < MaxLen)
       /\ handleJoinRoom(id, CapCode, n)
  \/ \E id \in Ids : handleLeaveRoom(id, CapCode)
  \/ \E id \in Ids, m \in InputTexts : handleChatMessage(id, CapCode, m)
  \/ \E id \in Ids : handleGetRooms(id)
  \/ \E id \in Ids : handleUnknown(id)
  \/ \E id \in Ids : Close(id)

SpecWire == Init /\ [][NextWire]_vars

(* ------------------------------- claims ------------------------------- *)
members(c) == rooms[c].players

\* the last handler was a leave (explicit or by disconnect) that removed a
\* player from a room
LeftRoom == last.ok /\ last.op \in {"leave_room", "close"}

\* C1: in every reachable state, every room of the store with members has a
\* hostId that is the id of one of its current members.
HostInvariant ==
  \A c \in DOMAIN rooms : members(c) # <<>> => rooms[c].hostId \in Range(members(c))

\* a host has left a room that lives on under a new host
HostInvariantWitness ==
  /\ LeftRoom /\ last.host = last.pid
  /\ last.code \in DOMAIN rooms
  /\ rooms[last.code].hostId # last.pid

\* C2: a leave (explicit or by disconnect) that removes the host while
\* members remain makes the first of the remaining members the host, in
\* status waiting and playing alike.
HostTransferFirst ==
  [][(last'.ok /\ last'.op \in {"leave_room", "close"} /\ last'.host = last'.pid
        /\ last'.code \in DOMAIN rooms')
     => /\ last'.code \in DOMAIN rooms
        /\ rooms'[last'.code].players =
             splice(members(last'.code), findIndex(members(last'.code), last'.pid))
        /\ rooms'[last'.code].hostId = rooms'[last'.code].players[1]]_vars

\* the host has left a playing room in which two members remain
HostTransferWitness ==
  /\ LeftRoom /\ last.host = last.pid
  /\ last.code \in DOMAIN rooms
  /\ rooms[last.code].status = "playing"
  /\ Len(members(last.code)) >= 2
  /\ members(last.code)[1] # members(last.code)[2]

\* C3: the length of members never exceeds the maximum of 10.
MembersBounded == \A c \in DOMAIN rooms : Len(members(c)) <= 10

\* a join_room was rejected by a room that holds 10 members
MembersBoundedWitness ==
  /\ last.op = "join_room" /\ ~last.ok
  /\ \E c \in DOMAIN rooms : Len(members(c)) = 10 /\ rooms[c].status = "waiting"
  /\ \E i \in DOMAIN sent : sent[i].msg.type = "error"

\* C4: no participant id occurs more than once in a room's members.
NoDuplicateMembers ==
  \A c \in DOMAIN rooms :
    \A i, j \in DOMAIN members(c) : members(c)[i] = members(c)[j] => i = j

\* C5: each participant id is a member of at most one room.
AtMostOneRoom ==
  \A id \in Ids : Cardinality({c \in DOMAIN rooms : id \in Range(members(c))}) <= 1

\* C6: every room of the store has at least one member: the leave that
\* takes the last member removes the room in the same step.
NoEmptyRoom == \A c \in DOMAIN rooms : Len(members(c)) >= 1

\* the last member, holding a board of a started game, has left a room,
\* which is gone
NoEmptyRoomWitness ==
  /\ LeftRoom
  /\ last.code \notin DOMAIN rooms
  /\ player[last.pid].board # NoBoard

\* C7: roomCodes is the set of codes of the rooms of the store, createRoom
\* is never given a code an active room holds, and the code of a destroyed
\* room is at once among those generateRoomCode can return.
RoomCodesUniqueReleased ==
  /\ [](roomCodes = DOMAIN rooms /\ \A c \in DOMAIN rooms : rooms[c].code = c)
  /\ [][/\ (last'.ok /\ last'.op = "create_room")
            => /\ last'.code \notin DOMAIN rooms
               /\ last'.code \in DOMAIN rooms'
               /\ \A c \in DOMAIN rooms : c \in DOMAIN rooms' /\ rooms'[c] = rooms[c]
         /\ \A c \in DOMAIN rooms \ DOMAIN rooms' : c \in generateRoomCode']_vars

\* a room was destroyed while another is active, and its code is free
RoomCodesWitness ==
  /\ LeftRoom
  /\ last.code \notin DOMAIN rooms
  /\ last.code \in generateRoomCode
  /\ roomCodes # {}

\* C8: every member of every room is a participant registered in the
\* connection registry (after a close the participant is in no room).
MembersRegistered ==
  \A c \in DOMAIN rooms : Range(members(c)) \subseteq players

\* C9: when the host a of a waiting room disconnects while other members
\* remain, every remaining member is sent player_left naming a, the
\* earliest-joined remaining member b becomes hostId, and a start_game from
\* b then succeeds.
HostDisconnectHandsOver ==
  [][\A a \in Ids : \A c \in DOMAIN rooms :
       (/\ Close(a)
        /\ rooms[c].hostId = a /\ rooms[c].status = "waiting"
        /\ Range(members(c)) \ {a} # {})
       => LET others == SelectSeq(members(c), LAMBDA m : m # a)
              b == others[1]
          IN /\ c \in DOMAIN rooms'
             /\ \A m \in Range(others) :
                  \E i \in DOMAIN sent' :
                    /\ sent'[i].to = m
                    /\ sent'[i].msg.type = "player_left"
                    /\ sent'[i].msg.playerId = a
             /\ rooms'[c].hostId = b
             /\ conn'[b] = "open" /\ b \in players'
             /\ rooms'[c].status = "waiting"]_vars

\* C10: a start_game whose sender is not the hostId of the room, or whose
\* room is not waiting, changes no room and no board and is answered with
\* an error to the sender.
StartGameAuthorized ==
  [][\A id \in Ids : \A c \in Codes :
       (/\ \E b \in boardChoices(c, BoardSamples) : handleStartGame(id, c, b)
        /\ ~(c \in DOMAIN rooms /\ rooms[c].status = "waiting" /\ rooms[c].hostId = id))
       => /\ rooms' = rooms
          /\ player' = player
          /\ sent' = errorTo(id, "Failed to start game")]_vars

\* the last handler was a start_game that started a game
Started == last.ok /\ last.op = "start_game"

\* C11: a successful start_game sets status to playing, empties
\* calledNumbers and winners and gives every current member a board
\* generated for the room's game type; and every member of a room in
\* status playing holds a board.
StartGameDealsBoards ==
  /\ [][(last'.ok /\ last'.op = "start_game")
        => LET c == last'.code IN
           /\ c \in DOMAIN rooms /\ c \in DOMAIN rooms'
           /\ rooms[c].status = "waiting"
           /\ rooms'[c].status = "playing"
           /\ rooms'[c].calledNumbers = <<>>
           /\ rooms'[c].winners = <<>>
           /\ rooms'[c].players = rooms[c].players
           /\ \A m \in Range(members(c)) :
                player'[m].board \in
                  {generateBoard(rooms[c].gameType, k) : k \in BoardSamples}]_vars
  /\ [](\A c \in DOMAIN rooms :
          rooms[c].status = "playing"
          => \A m \in Range(members(c)) : player[m].board # NoBoard)

\* a game was started in a room of two participants and both hold a board
StartGameDealsBoardsWitness ==
  /\ Started
  /\ last.code \in DOMAIN rooms
  /\ Cardinality(Range(members(last.code))) = 2
  /\ \A m \in Range(members(last.code)) : player[m].board # NoBoard

\* C12: on a successful start_game every member of the room (with an open
\* socket) is sent a game_started envelope that carries that member's own
\* board together with the gameState snapshot.
GameStartedCarriesBoard ==
  [][(last'.ok /\ last'.op = "start_game")
     => \A m \in Range(rooms'[last'.code].players) :
          conn[m] = "open"
          => \E i \in DOMAIN sent' :
               /\ sent'[i].to = m
               /\ sent'[i].msg.type = "game_started"
               /\ sent'[i].msg.gameState = getRoomState(rooms'[last'.code], player')
               /\ "board" \in DOMAIN sent'[i].msg
               /\ sent'[i].msg.board = player'[m].board]_vars

\* C13: call_number appends a number only when the room's status is
\* playing and the sender is the room's hostId; a call_number naming a room
\* in any other case (sender not the host, not a member, room waiting or
\* absent) is answered with an error to the sender alone and changes no
\* room, so neither calledNumbers nor currentNumber.
CallNumberGuarded ==
  [][/\ \A c \in DOMAIN rooms \cap DOMAIN rooms' :
          Len(rooms'[c].calledNumbers) > Len(rooms[c].calledNumbers)
          => /\ last'.ok /\ last'.op = "call_number" /\ last'.code = c
             /\ rooms[c].status = "playing"
             /\ rooms[c].hostId = last'.pid
     /\ \A id \in Ids : \A c \in Codes :
          (/\ \E n \in PlayDraws : handleCallNumber(id, c, n)
           /\ ~(c \in DOMAIN rooms /\ rooms[c].status = "playing"
                                   /\ rooms[c].hostId = id))
          => /\ rooms' = rooms
             /\ Len(sent') = 1
             /\ sent'[1].to = id
             /\ sent'[1].msg.type = "error"]_vars

\* a member who is not the host was refused a call_number in a playing room
\* with a number called
CallNumberGuardedWitness ==
  /\ last.op = "call_number" /\ ~last.ok
  /\ \E c \in DOMAIN rooms : \E id \in Range(members(c)) :
       /\ rooms[c].status = "playing"
       /\ rooms[c].hostId # id
       /\ rooms[c].calledNumbers # <<>>
       /\ sent = errorTo(id, "Not authorized to call numbers")

\* C14: host authority is judged against the room at processing time: once
\* the leave of a room's host has been processed, a call_number of that
\* participant for the room is rejected.
FormerHostCallRejected ==
  (LeftRoom /\ last.host = last.pid /\ Sender(last.pid))
  => ~callAllowed(last.code, last.pid)

\* calledNumbers of room c holds no value twice
distinctCalls(c) ==
  \A i, j \in DOMAIN rooms[c].calledNumbers :
    rooms[c].calledNumbers[i] = rooms[c].calledNumbers[j] => i = j

\* C15: calledNumbers of every room contains no duplicate value, after any
\* number of successful call_number operations.
NoDuplicateCalls == \A c \in DOMAIN rooms : distinctCalls(c)

\* a call_number succeeded in a 30-ball room where every other explored
\* outcome of the draw had been called before
NoDuplicateCallsWitness ==
  /\ last.ok /\ last.op = "call_number"
  /\ last.code \in DOMAIN rooms
  /\ rooms[last.code].gameType = "30ball"
  /\ Range(rooms[last.code].calledNumbers) = DrawSamples \cap (1..30)
  /\ Len(rooms[last.code].calledNumbers) = 3

\* C16: calledNumbers is append-only and grows only during playing: in
\* every step the calledNumbers of a room is unchanged, or extended by one
\* element at its end by a successful call_number while the status is
\* playing, or emptied by a successful start_game; no other handler
\* modifies it.
CalledNumbersAppendOnly ==
  [][\A c \in DOMAIN rooms \cap DOMAIN rooms' :
       LET old == rooms[c].calledNumbers
           new == rooms'[c].calledNumbers
       IN \/ new = old
          \/ /\ Len(new) = Len(old) + 1
             /\ SubSeq(new, 1, Len(old)) = old
             /\ last'.ok /\ last'.op = "call_number" /\ last'.code = c
             /\ rooms[c].status = "playing" /\ rooms'[c].status = "playing"
          \/ /\ new = <<>>
             /\ last'.ok /\ last'.op = "start_game" /\ last'.code = c]_vars

\* a second number was called in a room of two participants
CalledNumbersAppendOnlyWitness ==
  /\ last.ok /\ last.op = "call_number"
  /\ last.code \in DOMAIN rooms
  /\ Len(rooms[last.code].calledNumbers) = 2
  /\ Cardinality(Range(members(last.code))) = 2

\* C17: every called number lies in the number space of the room's game
\* type (1..75 for 75ball and pattern, 1..90 for 90ball, 1..30 for 30ball),
\* currentNumber is the value drawn last, and five calls in a 75ball room
\* leave 5 distinct entries.
CalledNumbersInSpace ==
  \A c \in DOMAIN rooms :
    LET room == rooms[c]
        called == Range(room.calledNumbers)
    IN /\ room.gameType \in {"75ball", "pattern"} => called \subseteq 1..75
       /\ room.gameType = "90ball" => called \subseteq 1..90
       /\ room.gameType = "30ball" => called \subseteq 1..30
       /\ room.calledNumbers # <<>>
          => room.currentNumber = room.calledNumbers[Len(room.calledNumbers)]
       /\ (room.gameType = "75ball" /\ Len(room.calledNumbers) = 5)
          => Cardinality(called) = 5

\* five numbers were called in a 75ball room, both ends of 1..75 among them
CalledNumbersInSpaceWitness ==
  /\ last.ok /\ last.op = "call_number"
  /\ last.code \in DOMAIN rooms
  /\ rooms[last.code].gameType = "75ball"
  /\ Len(rooms[last.code].calledNumbers) = 5
  /\ {1, 75} \subseteq Range(rooms[last.code].calledNumbers)

\* C18: a call_number by the host of a playing room whose calledNumbers
\* holds every value of the number space returns: the handler ends, the
\* sender is sent an error and calledNumbers is unchanged.
CallNumberExhaustedFails ==
  [][\A id \in Ids : \A c \in DOMAIN rooms :
       (/\ \E n \in numberSpace("30ball") : handleCallNumber(id, c, n)
        /\ rooms[c].status = "playing" /\ rooms[c].hostId = id
        /\ rooms[c].gameType = "30ball"
        /\ (1..30) \subseteq Range(rooms[c].calledNumbers))
       => /\ pc' = "idle"
          /\ rooms' = rooms
          /\ \E i \in DOMAIN sent' :
               sent'[i].to = id /\ sent'[i].msg.type = "error"]_vars

\* C19: join_room succeeds only if the room exists, its status is waiting
\* and it has fewer than 10 members; a join_room that does not succeed is
\* answered with an error to the sender and leaves the members of every
\* room unchanged (and it fails only for one of these reasons or for a
\* missing playerName).
JoinRoomGuarded ==
  [][\A id \in Ids : \A c \in InputCodes : \A n \in InputNames :
       handleJoinRoom(id, c, n)
       => IF last'.ok
          THEN /\ c \in DOMAIN rooms
               /\ rooms[c].status = "waiting"
               /\ Len(members(c)) < 10
               /\ rooms'[c].players = Append(members(c), id)
          ELSE /\ ~(c \in DOMAIN rooms /\ rooms[c].status = "waiting"
                                      /\ Len(members(c)) < 10)
                  \/ n = ""
               /\ DOMAIN rooms' = DOMAIN rooms
               /\ \A c2 \in DOMAIN rooms : rooms'[c2].players = members(c2)
               /\ Len(sent') = 1
               /\ sent'[1].to = id
               /\ sent'[1].msg.type = "error"]_vars

\* an 11th join_room was refused by a waiting room of 10 members, two
\* participants among them
JoinRoomGuardedWitness ==
  /\ last.op = "join_room" /\ ~last.ok
  /\ \E c \in DOMAIN rooms :
       /\ Len(members(c)) = 10
       /\ rooms[c].status = "waiting"
       /\ Cardinality(Range(members(c))) = 2
  /\ \E id \in Ids : sent = errorTo(id, "Room not found or full")

\* C20: hostId of a room changes only in a step that removes the current
\* host from members; a successful join appends the participant at the end
\* of members and leaves hostId unchanged, as do start_game, call_number,
\* claim_win, chat_message and the leave of a member who is not the host.
HostChangesOnlyOnHostLeave ==
  [][\A c \in DOMAIN rooms \cap DOMAIN rooms' :
       /\ rooms'[c].hostId # rooms[c].hostId
          => /\ last'.ok /\ last'.op \in {"leave_room", "close"}
             /\ last'.code = c /\ last'.pid = rooms[c].hostId
             /\ rooms'[c].players =
                  splice(members(c), findIndex(members(c), rooms[c].hostId))
       /\ (last'.ok /\ last'.op = "join_room" /\ last'.code = c)
          => /\ rooms'[c].players = Append(members(c), last'.pid)
             /\ rooms'[c].hostId = rooms[c].hostId]_vars

\* a second participant has joined a room behind its host
HostChangesOnlyOnHostLeaveWitness ==
  /\ last.ok /\ last.op = "join_room"
  /\ last.code \in DOMAIN rooms
  /\ Len(members(last.code)) = 2
  /\ members(last.code)[1] = rooms[last.code].hostId
  /\ members(last.code)[2] = last.pid
  /\ last.pid # rooms[last.code].hostId

\* C21: when a leave removes the host and members remain under a new host,
\* every remaining member (with an open socket) is sent a message from
\* which the new hostId can be read.
HostChangeNotified ==
  [][(/\ last'.ok /\ last'.op \in {"leave_room", "close"}
      /\ last'.host = last'.pid
      /\ last'.code \in DOMAIN rooms'
      /\ rooms'[last'.code].hostId # last'.pid)
     => \A m \in Range(rooms'[last'.code].players) :
          conn'[m] = "open"
          => \E i \in DOMAIN sent' :
               /\ sent'[i].to = m
               /\ \/ /\ "hostId" \in DOMAIN sent'[i].msg
                     /\ sent'[i].msg.hostId = rooms'[last'.code].hostId
                  \/ /\ "gameState" \in DOMAIN sent'[i].msg
                     /\ sent'[i].msg.gameState.hostId = rooms'[last'.code].hostId]_vars

\* C22: claim_win succeeds only when the room's status is playing and the
\* claimant is a current member of the room; a claim (naming a room and a
\* pattern) that fails changes no room and no player, broadcasts nothing and
\* is answered with an error to the claimant alone.
ClaimWinGuarded ==
  [][\A id \in Ids : \A c \in Codes : \A p \in PlayPatterns :
       handleClaimWin(id, c, p)
       => IF last'.ok
          THEN /\ c \in DOMAIN rooms
               /\ rooms[c].status = "playing"
               /\ id \in Range(members(c))
          ELSE /\ rooms' = rooms
               /\ player' = player
               /\ sent' = errorTo(id, "Invalid win claim")]_vars

\* a participant who has left a playing room, holding a board that two
\* called numbers mark, was refused a claim
ClaimWinGuardedWitness ==
  /\ last.op = "claim_win" /\ ~last.ok
  /\ \E c \in DOMAIN rooms : \E id \in Ids \ Range(members(c)) :
       /\ rooms[c].status = "playing"
       /\ Len(rooms[c].calledNumbers) = 2
       /\ player[id].board # NoBoard
       /\ sent = errorTo(id, "Invalid win claim")

\* C23: a successful claim_win appends exactly one record for the claimant,
\* with the claimed pattern, at the end of winners and sends player_win to
\* every current member (with an open socket); winners changes in no other
\* way, but for the reset of start_game.
ClaimWinAppends ==
  [][\A c \in DOMAIN rooms \cap DOMAIN rooms' :
       LET old == rooms[c].winners
           new == rooms'[c].winners
       IN /\ \/ new = old
             \/ /\ last'.ok /\ last'.op = "claim_win" /\ last'.code = c
                /\ Len(new) = Len(old) + 1
                /\ SubSeq(new, 1, Len(old)) = old
                /\ new[Len(new)].playerId = last'.pid
             \/ /\ new = <<>>
                /\ last'.ok /\ last'.op = "start_game" /\ last'.code = c
          /\ (last'.ok /\ last'.op = "claim_win" /\ last'.code = c)
             => /\ Len(new) = Len(old) + 1
                /\ \A m \in Range(members(c)) :
                     conn[m] = "open"
                     => \E i \in DOMAIN sent' :
                          /\ sent'[i].to = m
                          /\ sent'[i].msg.type = "player_win"
                          /\ sent'[i].msg.playerId = last'.pid
                          /\ sent'[i].msg.pattern = new[Len(new)].pattern]_vars

\* a second participant has won after a first
ClaimWinAppendsWitness ==
  /\ last.ok /\ last.op = "claim_win"
  /\ last.code \in DOMAIN rooms
  /\ Len(rooms[last.code].winners) = 2
  /\ rooms[last.code].winners[2].playerId = last.pid
  /\ rooms[last.code].winners[1].playerId # last.pid

\* C24: the verdict on a claim of a member of a playing room is a function
\* of calledNumbers, the claimant's board, the game type and the claimed
\* pattern, and of nothing else.
ClaimVerdictDeterministic ==
  [][\A id \in Ids : \A c \in DOMAIN rooms : \A p \in PlayPatterns :
       (/\ handleClaimWin(id, c, p)
        /\ rooms[c].status = "playing"
        /\ id \in Range(members(c)))
       => (last'.ok <=> verifyWin(player[id].board,
                                  [calledNumbers |-> rooms[c].calledNumbers,
                                   gameType |-> rooms[c].gameType], p))]_vars

\* the same claim was granted a second time
ClaimVerdictDeterministicWitness ==
  /\ last.ok /\ last.op = "claim_win"
  /\ last.code \in DOMAIN rooms
  /\ Len(rooms[last.code].winners) = 2
  /\ rooms[last.code].winners[1] = rooms[last.code].winners[2]

\* C25: in a 75ball room a claim_win with pattern full-house fails and
\* leaves winners unchanged whenever fewer of the numbers of the claimant's
\* board are called than the board holds.
FullHouseNeedsFullCoverage ==
  [][\A id \in Ids : \A c \in DOMAIN rooms :
       (/\ handleClaimWin(id, c, "full-house")
        /\ rooms[c].gameType = "75ball"
        /\ rooms[c].status = "playing"
        /\ id \in Range(members(c))
        /\ Cardinality(flattenBoard(player[id].board) \cap Range(rooms[c].calledNumbers))
             < Cardinality(flattenBoard(player[id].board)))
       => /\ ~last'.ok
          /\ rooms'[c].winners = rooms[c].winners]_vars

\* the envelopes of type t that the step sent to m
deliveries(m, t) == {i \in DOMAIN sent' : sent'[i].to = m /\ sent'[i].msg.type = t}

\* C26: broadcastToRoom isolates recipients: the message of a successful
\* chat_message or join_room is sent exactly once to every member whose
\* socket is open, whatever the state of the other members' sockets, and
\* the join is not rolled back.
BroadcastIsolated ==
  [][\A c \in DOMAIN rooms \cap DOMAIN rooms' :
       (last'.ok /\ last'.code = c /\ last'.op \in {"chat_message", "join_room"})
       => /\ \A m \in Range(rooms'[c].players) :
               Cardinality(deliveries(m, IF last'.op = "join_room"
                                         THEN "player_joined" ELSE "chat_message"))
                 = IF conn[m] = "open" THEN 1 ELSE 0
          /\ last'.op = "join_room"
             => rooms'[c].players = Append(members(c), last'.pid)]_vars

\* C27: the rooms_list update after a successful create_room, join_room or
\* leave_room reaches every connection whose socket is open, whatever the
\* state of the other sockets.
RoomListIsolated ==
  [][(last'.ok /\ last'.op \in {"create_room", "join_room", "leave_room"})
     => \A w \in Range(wss) :
          conn[w] = "open" => deliveries(w, "rooms_list") # {}]_vars

\* the handler of a message of connection id has run
Handled(id) ==
  \/ \E n \in InputNames, t \in InputTypes \cup PlayTypes, c \in Codes :
       handleCreateRoom(id, n, t, c)
  \/ \E c \in InputCodes, n \in InputNames : handleJoinRoom(id, c, n)
  \/ \E c \in InputCodes : handleLeaveRoom(id, c)
  \/ \E c \in InputCodes :
       \E b \in boardChoices(c, BoardSamples) : handleStartGame(id, c, b)
  \/ \E c \in InputCodes, n \in PlayDraws : handleCallNumber(id, c, n)
  \/ \E c \in InputCodes, p \in PlayPatterns \cup InputPatterns : handleClaimWin(id, c, p)
  \/ \E c \in InputCodes, m \in InputTexts : handleChatMessage(id, c, m)
  \/ handleGetRooms(id)
  \/ handleUnknown(id)

\* C28: an error envelope is sent only by the handler of an inbound message
\* and only to the connection that message came from, as the one envelope
\* of the step, and the step changes no room (so no members, hostId,
\* status, calledNumbers or winners).
ErrorsToSenderOnly ==
  [][(\E i \in DOMAIN sent' : sent'[i].msg.type = "error")
     => /\ \E id \in Ids : Handled(id)
        /\ \A id \in Ids :
             Handled(id) => /\ Len(sent') = 1
                            /\ sent'[1].to = id
        /\ rooms' = rooms]_vars

\* the start_game of a member was refused with an error while the room's
\* two members have open sockets
ErrorsToSenderOnlyWitness ==
  /\ last.op = "start_game" /\ ~last.ok
  /\ Len(sent) = 1 /\ sent[1].msg.type = "error"
  /\ \E c \in DOMAIN rooms :
       /\ Cardinality(Range(members(c))) = 2
       /\ sent[1].to \in Range(members(c))
       /\ \A m \in Range(members(c)) : conn[m] = "open"

\* C29: a join_room, leave_room, start_game, call_number, claim_win or
\* chat_message that names a room code not in the store is answered with
\* one error envelope to the sender, changes no room and sends nothing else.
UnknownRoomSignalled ==
  [][\A id \in Ids : \A c \in Codes \ DOMAIN rooms :
       (\/ handleJoinRoom(id, c, "ann")
        \/ handleLeaveRoom(id, c)
        \/ \E b \in boardChoices(c, BoardSamples) : handleStartGame(id, c, b)
        \/ \E n \in PlayDraws : handleCallNumber(id, c, n)
        \/ \E p \in PlayPatterns : handleClaimWin(id, c, p)
        \/ handleChatMessage(id, c, "hi"))
       => /\ rooms' = rooms
          /\ Len(sent') = 1
          /\ sent'[1].to = id
          /\ sent'[1].msg.type = "error"]_vars

\* C30: an inbound envelope of unknown type (or one that cannot be decoded)
\* is ignored: it changes no room and no registry entry, nothing is sent,
\* and every connection that could send before can send afterwards.
UnknownTypeIgnored ==
  [][last'.op = "unknown"
     => /\ UNCHANGED <<rooms, roomOrder, roomCodes, players, player, conn, wss, pc>>
        /\ sent' = <<>>
        /\ \A id \in Ids : Sender(id) => (conn'[id] = "open" /\ id \in players')]_vars

\* an envelope of unknown type came in while a room has a member with an
\* open socket
UnknownTypeIgnoredWitness ==
  /\ last.op = "unknown"
  /\ \E c \in DOMAIN rooms : \E m \in Range(members(c)) : Sender(m)

(* ------------------------------ room codes ------------------------------ *)
\* the code CapCode as a participant can type it, in lower case
LowerCode == "aaaaaa"

\* roomCode fields of inbound join_room and leave_room envelopes that name
\* the room CapCode in either letter case
CaseCodes == {CapCode, LowerCode}

\* String.prototype.toUpperCase on the room codes of CaseCodes, as the
\* client applies it to the code typed into its join form
toUpperCase(s) == IF s = LowerCode THEN CapCode ELSE s

\* one room whose code arrives in either letter case
NextCase ==
  \/ \E id \in Ids : Open(id)
  \/ \E id \in Ids : handleCreateRoom(id, "ann", "75ball", CapCode)
  \/ \E id \in Ids, c \in CaseCodes :
       (CapCode \in DOMAIN rooms => Len(rooms[CapCode].players) < MaxLen)
       /\ handleJoinRoom(id, c, "ann")
  \/ \E id \in Ids, c \in CaseCodes : handleLeaveRoom(id, c)
  \/ \E id \in Ids : Close(id)

SpecCase == Init /\ [][NextCase]_vars

\* C31: room codes are case-insensitive on input: a join_room whose
\* roomCode differs from the code of an active room only in letter case
\* resolves to that room (it joins the room when the room is waiting and
\* not full), and a leave_room so addressed removes the sender from it.
RoomCodeCaseInsensitive ==
  [][\A id \in Ids, c \in CaseCodes :
       LET code == toUpperCase(c) IN
       /\ (/\ handleJoinRoom(id, c, "ann")
           /\ code \in DOMAIN rooms
           /\ joinOpen(rooms[code]) /\ ~joinFull(rooms[code]))
          => /\ last'.ok
             /\ rooms'[code].players = Append(members(code), id)
       /\ (/\ handleLeaveRoom(id, c)
           /\ code \in DOMAIN rooms
           /\ id \in Range(members(code)))
          => (code \in DOMAIN rooms' => rooms'[code].players # members(code))]_vars

\* C32: number_called envelopes reach the members of a room in the order
\* of calledNumbers: every successful call_number appends one number and
\* sends every member whose socket is open exactly one number_called
\* envelope, which carries that number and the calledNumbers it now ends, and
\* no other step sends a number_called envelope; so what a member present
\* for the whole session is sent is exactly the calledNumbers sequence.
NumberCalledInOrder ==
  [][/\ \A c \in DOMAIN rooms \cap DOMAIN rooms' :
          (last'.ok /\ last'.op = "call_number" /\ last'.code = c)
          => \A m \in Range(rooms'[c].players) :
               conn[m] = "open"
               => /\ Cardinality(deliveries(m, "number_called")) = 1
                  /\ \A i \in deliveries(m, "number_called") :
                       /\ sent'[i].msg.calledNumbers = rooms'[c].calledNumbers
                       /\ rooms'[c].calledNumbers
                            = Append(rooms[c].calledNumbers, sent'[i].msg.number)
     /\ (\E i \in DOMAIN sent' : sent'[i].msg.type = "number_called")
        => last'.ok /\ last'.op = "call_number"]_vars

(* -------------------------------- boards -------------------------------- *)
\* game types whose boards differ in shape
BoardTypes == {"75ball", "30ball"}

\* the lifecycle of two rooms of different game types
NextBoards ==
  \/ \E id \in Ids : Open(id)
  \/ \E id \in Ids, t \in BoardTypes, c \in Codes : handleCreateRoom(id, "ann", t, c)
  \/ \E id \in Ids, c \in Codes :
       (c \in DOMAIN rooms => Len(rooms[c].players) < MaxLen) /\ handleJoinRoom(id, c, "ann")
  \/ \E id \in Ids, c \in Codes : handleLeaveRoom(id, c)
  \/ \E id \in Ids, c \in Codes :
       \E b \in boardChoices(c, BoardSamples) : handleStartGame(id, c, b)

SpecBoards == Init /\ [][NextBoards]_vars

\* C33: the board of a member of a playing room does not change while the
\* room stays playing and the member stays in it, whatever operation is
\* performed on this room or on another room.
BoardImmutable ==
  [][\A c \in DOMAIN rooms \cap DOMAIN rooms' :
       \A m \in Range(members(c)) \cap Range(rooms'[c].players) :
         (rooms[c].status = "playing" /\ rooms'[c].status = "playing")
         => player'[m].board = player[m].board]_vars

\* C34: boards do not outlive their session: a member of a room in status
\* waiting holds no board, and no room_created or room_joined envelope
\* carries a board (both are sent for rooms in status waiting, whose
\* session has dealt none).
BoardsDiscarded ==
  /\ \A c \in DOMAIN rooms :
       rooms[c].status = "waiting"
       => \A m \in Range(members(c)) : player[m].board = NoBoard
  /\ \A i \in DOMAIN sent :
       sent[i].msg.type \in {"room_created", "room_joined"}
       => sent[i].msg.board = NoBoard

(* --------------------------------- chat --------------------------------- *)
\* C35: chat_message is a pure relay: the text of a member is sent
\* unchanged, attributed to the sender, to every member of the room whose
\* socket is open and to nobody else; a chat_message of a non-member, or
\* one without text, sends nothing; and no room changes in any of these
\* cases.
ChatIsPureRelay ==
  [][\A id \in Ids, c \in Codes, m \in InputTexts :
       handleChatMessage(id, c, m)
       => /\ rooms' = rooms
          /\ IF m # "" /\ c \in DOMAIN rooms /\ id \in Range(members(c))
             THEN /\ \A i \in DOMAIN sent' :
                       /\ sent'[i].to \in Range(members(c))
                       /\ sent'[i].msg.type = "chat_message"
                       /\ sent'[i].msg.message = m
                       /\ sent'[i].msg.playerId = id
                  /\ \A k \in Range(members(c)) :
                       conn[k] = "open" => deliveries(k, "chat_message") # {}
             ELSE sent' = <<>>]_vars

\* a chat of one of two members has been relayed to both
ChatIsPureRelayWitness ==
  /\ last.op = "chat_message" /\ last.ok
  /\ last.code \in DOMAIN rooms
  /\ Cardinality(Range(members(last.code))) = 2
  /\ {sent[i].to : i \in DOMAIN sent} = Range(members(last.code))
  /\ \A i \in DOMAIN sent : sent[i].msg.message = "hi"

\* the longest chat text the client sends
MaxChat == 200

\* a chat text one character over the client's bound
LongText ==
  "xxxxxxxxxxxxxxxxxxxxxxxxxxxxxxxxxxxxxxxxxxxxxxxxxxxxxxxxxxxxxxxxxxxxxxxxxxxxxxxxxxxxxxxxxxxxxxxxxxxxxxxxxxxxxxxxxxxxxxxxxxxxxxxxxxxxxxxxxxxxxxxxxxxxxxxxxxxxxxxxxxxxxxxxxxxxxxxxxxxxxxxxxxxxxxxxxxxxxxxxx"

\* message fields of chat envelopes: a short text, a missing one and one
\* over the client's bound
ChatTexts == {"hi", "", LongText}

\* one room and its chat, with texts of every length class
NextChat ==
  \/ \E id \in Ids : Open(id)
  \/ \E id \in Ids : handleCreateRoom(id, "ann", "75ball", CapCode)
  \/ \E id \in Ids :
       (CapCode \in DOMAIN rooms => Len(rooms[CapCode].players) < MaxLen)
       /\ handleJoinRoom(id, CapCode, "ann")
  \/ \E id \in Ids : handleLeaveRoom(id, CapCode)
  \/ \E id \in Ids, m \in ChatTexts : handleChatMessage(id, CapCode, m)
  \/ \E id \in Ids : Close(id)

SpecChat == Init /\ [][NextChat]_vars

\* C36: the server validates chat text before relaying: a chat_message
\* whose text is empty or longer than MaxChat characters sends no envelope.
ChatTextValidated ==
  [][\A id \in Ids, m \in ChatTexts :
       (handleChatMessage(id, CapCode, m) /\ (m = "" \/ Len(m) > MaxChat))
       => sent' = <<>>]_vars

(* ------------------------------- sessions ------------------------------- *)
\* C37: in every room currentNumber is unset (0) exactly when calledNumbers
\* is empty, and otherwise it is the last element of calledNumbers.
CurrentNumberTracksCalls ==
  \A c \in DOMAIN rooms :
    IF rooms[c].calledNumbers = <<>>
    THEN rooms[c].currentNumber = 0
    ELSE rooms[c].currentNumber = rooms[c].calledNumbers[Len(rooms[c].calledNumbers)]

\* a room after its second call: currentNumber is the second number and
\* differs from the first
CurrentNumberTracksCallsWitness ==
  \E c \in DOMAIN rooms :
    /\ Len(rooms[c].calledNumbers) = 2
    /\ rooms[c].currentNumber = rooms[c].calledNumbers[2]
    /\ rooms[c].currentNumber # rooms[c].calledNumbers[1]

\* C38: the status of a room is monotone: every room is waiting or playing,
\* never finished; the only status change is waiting -> playing, made by a
\* successful start_game, which succeeds only on a waiting room; so a room
\* that is playing stays playing until it is destroyed, through every call,
\* win claim and departure.
StatusMonotone ==
  [][/\ \A c \in DOMAIN rooms' : rooms'[c].status \in {"waiting", "playing"}
     /\ \A c \in DOMAIN rooms \cap DOMAIN rooms' :
          /\ rooms'[c].status # rooms[c].status
             => /\ rooms[c].status = "waiting" /\ rooms'[c].status = "playing"
                /\ last'.op = "start_game" /\ last'.ok /\ last'.code = c
          /\ (last'.op = "start_game" /\ last'.ok /\ last'.code = c)
             => rooms[c].status = "waiting"]_vars

\* a playing room in which a win has been granted and a member has left
StatusMonotoneWitness ==
  \E c \in DOMAIN rooms :
    /\ rooms[c].status = "playing"
    /\ rooms[c].winners # <<>>
    /\ last.op = "leave_room" /\ last.ok /\ last.code = c

(* ------------------------------- the router ------------------------------ *)
\* handleWebSocketMessage: the player the router hands to the handler,
\* found by its socket among gameManager.players
actor_claimed(id, data) == IF data.playerId \in players THEN data.playerId ELSE id

actor(id, data) == id

\* handleWebSocketMessage(client, data), with id the player of the socket
\* and rnd the outcomes of the random draws of the handler it calls
handleWebSocketMessage(id, data, rnd) ==
  LET p == actor(id, data) IN
  /\ Sender(id)
  /\ CASE data.type = "create_room" ->
            handleCreateRoom(p, data.playerName, data.gameType, rnd.code)
       [] data.type = "join_room" -> handleJoinRoom(p, data.roomCode, data.playerName)
       [] data.type = "leave_room" -> handleLeaveRoom(p, data.roomCode)
       [] data.type = "start_game" -> handleStartGame(p, data.roomCode, rnd.boards)
       [] data.type = "call_number" -> handleCallNumber(p, data.roomCode, rnd.number)
       [] data.type = "claim_win" -> handleClaimWin(p, data.roomCode, data.pattern)
       [] data.type = "chat_message" -> handleChatMessage(p, data.roomCode, data.message)
       [] data.type = "get_rooms" -> handleGetRooms(p)
       [] OTHER -> handleUnknown(p)

\* type fields of the inbound envelopes that address a room
EnvTypes == {"create_room", "join_room", "leave_room", "start_game", "call_number",
             "claim_win", "chat_message"}

\* playerName fields of inbound envelopes
EnvNames == {"ann", "bob"}

\* inbound envelopes for the room CapCode; every envelope carries a playerId
\* and a playerName field, whether its handler reads them or not, and the
\* participants all register as "ann" with create_room and join_room
Envelopes ==
  {e \in [type : EnvTypes, roomCode : {CapCode}, playerName : EnvNames,
          gameType : PlayTypes, pattern : {"one-line"}, message : {"hi"},
          playerId : Ids] :
     e.type \in {"create_room", "join_room"} => e.playerName = "ann"}

\* outcomes of the random draws of the handler run for the envelope data
\* (number 0: the handler draws no number)
EnvDraws(data) ==
  {[code |-> CapCode, boards |-> b, number |-> n] :
     b \in boardChoices(CapCode, BoardSamples),
     n \in IF data.type = "call_number" THEN PlayDraws ELSE {0}}

\* one room driven through the router by whole envelopes
NextEnvelope ==
  \/ \E id \in Ids : Open(id)
  \/ \E id \in Ids, data \in Envelopes :
       \E rnd \in EnvDraws(data) :
       /\ Sender(id)
       /\ (data.type = "join_room" /\ CapCode \in DOMAIN rooms)
          => Len(rooms[CapCode].players) < MaxLen
       /\ (data.type = "claim_win" /\ CapCode \in DOMAIN rooms)
          => Len(rooms[CapCode].winners) < MaxWins
       /\ handleWebSocketMessage(id, data, rnd)

SpecEnvelope == Init /\ [][NextEnvelope]_vars

\* the number of entries of the sequence s that equal x
count(s, x) == Cardinality({i \in DOMAIN s : s[i] = x})

\* C39: the acting participant is the one bound to the sending connection,
\* whatever playerId and playerName the envelope carries: a leave_room
\* removes only the sender, a granted claim_win records and announces the
\* sender under the sender's registered name, a chat_message is attributed
\* to the sender, a number is called only for a sender who is the host, and
\* none of the four renames or unregisters anybody.
ActorIsSender ==
  [][\A id \in Ids, data \in Envelopes :
       (/\ data.type \in {"leave_room", "call_number", "claim_win", "chat_message"}
        /\ data.roomCode \in DOMAIN rooms
        /\ last'.op = data.type
        /\ \E rnd \in EnvDraws(data) : handleWebSocketMessage(id, data, rnd))
       => LET c == data.roomCode IN
          /\ players' = players
          /\ \A m \in Ids : player'[m].name = player[m].name
          /\ data.type = "leave_room"
             => IF c \in DOMAIN rooms'
                THEN \A m \in Ids \ {id} : count(rooms'[c].players, m) = count(members(c), m)
                ELSE Range(members(c)) = {id}
          /\ data.type # "leave_room"
             => c \in DOMAIN rooms' /\ rooms'[c].players = members(c)
          /\ (data.type = "claim_win" /\ rooms'[c].winners # rooms[c].winners)
             => /\ rooms'[c].winners
                     = Append(rooms[c].winners,
                              [playerId |-> id, playerName |-> player[id].name,
                               pattern |-> data.pattern])
                /\ \A i \in DOMAIN sent' :
                     sent'[i].msg.type = "player_win" /\ sent'[i].msg.playerId = id
          /\ data.type = "chat_message"
             => \A i \in DOMAIN sent' :
                  /\ sent'[i].msg.playerId = id
                  /\ sent'[i].msg.playerName = player[id].name
          /\ (data.type = "call_number"
              /\ rooms'[c].calledNumbers # rooms[c].calledNumbers)
             => /\ id = rooms[c].hostId
                /\ \A i \in DOMAIN sent' : sent'[i].msg.callerId = id]_vars

\* the win of a member who is not the host has been recorded under that
\* member's id and registered name while the host is another participant
\* (the claim_win envelopes sent name either participant and either name)
ActorIsSenderWitness ==
  \E c \in DOMAIN rooms :
    /\ last.op = "claim_win" /\ last.ok /\ last.code = c
    /\ last.pid # rooms[c].hostId
    /\ rooms[c].hostId \in Range(members(c))
    /\ rooms[c].winners[Len(rooms[c].winners)].playerId = last.pid
    /\ rooms[c].winners[Len(rooms[c].winners)].playerName = "ann"

\* C40: within one session a participant is recorded in winners at most
\* once: no two records of winners have the same playerId, and no claim_win
\* is granted (recorded, and announced with player_win and its prize) to a
\* participant who is already in winners.
WinnersUnique ==
  [][\A c \in DOMAIN rooms' :
       /\ \A i, j \in DOMAIN rooms'[c].winners :
            rooms'[c].winners[i].playerId = rooms'[c].winners[j].playerId => i = j
       /\ (c \in DOMAIN rooms /\ last'.op = "claim_win" /\ last'.ok /\ last'.code = c)
          => /\ \A i \in DOMAIN rooms[c].winners :
                  rooms[c].winners[i].playerId # last'.pid
             /\ \A i \in DOMAIN sent' :
                  sent'[i].msg.type = "player_win"
                  => \A k \in DOMAIN rooms[c].winners :
                       rooms[c].winners[k].playerId # sent'[i].msg.playerId]_vars

=============================================================================
